---- MODULE Spec2Model ----
(***************************************************************************)
(* Model of the dependency-graph core of src/main.py:                      *)
(*   build_dependency_graph   (recursive DFS with visited / path sets)     *)
(*   find_reverse_dependencies                                             *)
(*   the BFS level pass and the edge filter of generate_plantuml           *)
(* A graph is a Python dict: an insertion-ordered association list.        *)
(***************************************************************************)
EXTENDS Integers, Sequences, FiniteSets, TLC

VARIABLES
    root,       \* package argument of the top-level build call
    source,     \* the dependency source as far as it has been read: name -> list
    visited,    \* `visited` set of build_dependency_graph
    path,       \* `path` set of build_dependency_graph
    graph,      \* `graph` dict: sequence of [pkg, deps] in insertion order
    stack,      \* active expanding calls: [package, deps, idx], outermost first
    pc,         \* "build", "done", "error"; "idle", "reverse", "reversed",
                \* "levels", "leveled" for the queries on a finished graph
    run,        \* 1 or 2: which top-level build call is running
    graph1,     \* graph returned by the first top-level call
    lookups,    \* per package, fetch_apk_dependencies calls made by this run
    cycled,     \* packages that took the cycle branch in this run
    reentered,  \* packages entered again, off the path, after a cycle branch
    target,     \* `target` of find_reverse_dependencies
    reverse,    \* `reverse` list of find_reverse_dependencies
    ridx,       \* position of the items() loop of find_reverse_dependencies
    levels,     \* `levels` dict of generate_plantuml
    queue       \* `queue` deque of generate_plantuml: sequence of <<pkg, level>>

vars == <<root, source, visited, path, graph, stack, pc, run, graph1, lookups,
          cycled, reentered, target, reverse, ridx, levels, queue>>

buildVars == <<root, source, visited, path, graph, stack, run, graph1, lookups,
               cycled, reentered>>
queryVars == <<target, reverse, ridx, levels, queue>>

----------------------------------------------------------------------------
(* Bounds *)

Packages == {"A", "B", "C", "D"}

MaxDeps == 2

MaxEdges == 5

GraphNames == {"A", "B", "C"}

MaxGraphEdges == 4

DepLists == UNION {[1..n -> Packages] : n \in 0..MaxDeps}

----------------------------------------------------------------------------
(* Python dict as an insertion-ordered association list *)

Keys(g) == {g[i].pkg : i \in 1..Len(g)}

KeyList(g) == [i \in 1..Len(g) |-> g[i].pkg]

Has(g, k) == k \in Keys(g)

Index(g, k) == CHOOSE i \in 1..Len(g) : g[i].pkg = k

Get(g, k) == g[Index(g, k)].deps

GetOr(g, k, d) == IF Has(g, k) THEN Get(g, k) ELSE d

Remove(g, k) == SelectSeq(g, LAMBDA it : it.pkg # k)

PutMoveToEnd(g, k, v) == Append(Remove(g, k), [pkg |-> k, deps |-> v])

Put(g, k, v) ==
    IF Has(g, k)
        THEN [g EXCEPT ![Index(g, k)] = [pkg |-> k, deps |-> v]]
        ELSE Append(g, [pkg |-> k, deps |-> v])

Elems(s) == {s[i] : i \in 1..Len(s)}

DictEq(g, h) ==
    /\ Keys(g) = Keys(h)
    /\ \A k \in Keys(g) : Get(g, k) = Get(h, k)

----------------------------------------------------------------------------
(* The dependency source *)

RECURSIVE EdgeCount(_, _)
EdgeCount(src, S) ==
    IF S = {} THEN 0
    ELSE LET p == CHOOSE x \in S : TRUE
         IN  Len(src[p]) + EdgeCount(src, S \ {p})

LookupResults(src, p) ==
    IF p \in DOMAIN src
        THEN {src[p]}
        ELSE {d \in DepLists : EdgeCount(src, DOMAIN src) + Len(d) <= MaxEdges}

Reveal(src, p, d) == IF p \in DOMAIN src THEN src ELSE (p :> d) @@ src

SourceDeps(src, p) == IF p \in DOMAIN src THEN src[p] ELSE <<>>

RECURSIVE ReachFrom(_, _, _)
ReachFrom(src, S, n) ==
    IF n = 0 THEN S
    ELSE ReachFrom(src, S \cup UNION {Elems(SourceDeps(src, p)) : p \in S}, n - 1)

Reachable(src, r) == ReachFrom(src, {r}, Cardinality(Packages))

Acyclic(src) ==
    \A p \in DOMAIN src :
        p \notin ReachFrom(src, Elems(src[p]), Cardinality(Packages))

----------------------------------------------------------------------------
(* build_dependency_graph *)

Top == stack[Len(stack)]

CanEnter == IF stack = <<>> THEN TRUE ELSE Top.idx <= Len(Top.deps)

Arg == IF stack = <<>> THEN root ELSE Top.deps[Top.idx]

Depth == Len(stack)

Advance(st) ==
    IF st = <<>> THEN st
    ELSE [st EXCEPT ![Len(st)] = [@ EXCEPT !.idx = @ + 1]]

AfterCall(st) == IF st = <<>> THEN "done" ELSE "build"

CycleGraphKeep(g, p) == g

CycleGraph(g, p) == Put(g, p, <<>>)

VisitedAddNone(v, p) == v

VisitedAdd(v, p) == v \cup {p}

PathAddNone(s, p) == s

PathAdd(s, p) == s \cup {p}

PathRemoveNone(s, p) == s

PathRemove(s, p) == s \ {p}

ExpandGraphDedup(g, p, deps) ==
    Put(g, p, IF Len(deps) = 2 /\ deps[1] = deps[2] THEN <<deps[1]>> ELSE deps)

ExpandGraph(g, p, deps) == Put(g, p, deps)

StaleVisited(v) == v

FreshVisited(v) == {}

CycleBranch ==
    /\ pc = "build"
    /\ CanEnter
    /\ Arg \in path
    /\ graph' = CycleGraph(graph, Arg)
    /\ cycled' = cycled \cup {Arg}
    /\ stack' = Advance(stack)
    /\ pc' = AfterCall(stack)
    /\ UNCHANGED <<root, source, visited, path, run, graph1, lookups, reentered>>
    /\ UNCHANGED queryVars

VisitedBranch ==
    /\ pc = "build"
    /\ CanEnter
    /\ Arg \notin path
    /\ Arg \in visited
    /\ reentered' = IF Arg \in cycled THEN reentered \cup {Arg} ELSE reentered
    /\ stack' = Advance(stack)
    /\ pc' = AfterCall(stack)
    /\ UNCHANGED <<root, source, visited, path, graph, run, graph1, lookups, cycled>>
    /\ UNCHANGED queryVars

Expand ==
    /\ pc = "build"
    /\ CanEnter
    /\ Arg \notin path
    /\ Arg \notin visited
    /\ \E deps \in LookupResults(source, Arg) :
        /\ source' = Reveal(source, Arg, deps)
        /\ graph' = ExpandGraph(graph, Arg, deps)
        /\ stack' = Append(Advance(stack), [package |-> Arg, deps |-> deps, idx |-> 1])
    /\ visited' = VisitedAdd(visited, Arg)
    /\ path' = PathAdd(path, Arg)
    /\ lookups' = [lookups EXCEPT ![Arg] = @ + 1]
    /\ reentered' = IF Arg \in cycled THEN reentered \cup {Arg} ELSE reentered
    /\ UNCHANGED <<root, pc, run, graph1, cycled>>
    /\ UNCHANGED queryVars

Return ==
    /\ pc = "build"
    /\ stack # <<>>
    /\ ~CanEnter
    /\ IF Top.package \in path
          THEN /\ path' = PathRemove(path, Top.package)
               /\ stack' = SubSeq(stack, 1, Len(stack) - 1)
               /\ pc' = IF Len(stack) = 1 THEN "done" ELSE "build"
          ELSE /\ pc' = "error"
               /\ UNCHANGED <<path, stack>>
    /\ UNCHANGED <<root, source, visited, graph, run, graph1, lookups, cycled, reentered>>
    /\ UNCHANGED queryVars

Rebuild ==
    /\ pc = "done"
    /\ run = 1
    /\ graph1' = graph
    /\ run' = 2
    /\ visited' = FreshVisited(visited)
    /\ path' = {}
    /\ graph' = <<>>
    /\ stack' = <<>>
    /\ lookups' = [p \in Packages |-> 0]
    /\ cycled' = {}
    /\ reentered' = {}
    /\ pc' = "build"
    /\ UNCHANGED <<root, source>>
    /\ UNCHANGED queryVars

\* Package names are opaque to the code (compared for equality only), so the
\* top-level call is made for one fixed name; the source is read as it is
\* looked up.
Init ==
    /\ root = "A"
    /\ source = <<>>
    /\ visited = {}
    /\ path = {}
    /\ graph = <<>>
    /\ stack = <<>>
    /\ pc = "build"
    /\ run = 1
    /\ graph1 = <<>>
    /\ lookups = [p \in Packages |-> 0]
    /\ cycled = {}
    /\ reentered = {}
    /\ target = root
    /\ reverse = <<>>
    /\ ridx = 1
    /\ levels = <<>>
    /\ queue = <<>>

Build == CycleBranch \/ VisitedBranch \/ Expand \/ Return

Next == Build \/ Rebuild

Spec == Init /\ [][Next]_vars

----------------------------------------------------------------------------
(* find_reverse_dependencies *)

StartReverse ==
    /\ pc = "idle"
    /\ \E t \in GraphNames : target' = t
    /\ reverse' = <<>>
    /\ ridx' = 1
    /\ pc' = "reverse"
    /\ UNCHANGED <<levels, queue>>
    /\ UNCHANGED buildVars

ScanItemPrepend(rev, item, t) ==
    IF t \in Elems(item.deps) THEN <<item.pkg>> \o rev ELSE rev

ScanItem(rev, item, t) ==
    IF t \in Elems(item.deps) THEN Append(rev, item.pkg) ELSE rev

ReverseScan ==
    /\ pc = "reverse"
    /\ ridx <= Len(graph)
    /\ reverse' = ScanItem(reverse, graph[ridx], target)
    /\ ridx' = ridx + 1
    /\ UNCHANGED <<pc, target, levels, queue>>
    /\ UNCHANGED buildVars

ReverseReturn ==
    /\ pc = "reverse"
    /\ ridx > Len(graph)
    /\ pc' = "reversed"
    /\ UNCHANGED queryVars
    /\ UNCHANGED buildVars

----------------------------------------------------------------------------
(* generate_plantuml: the BFS level pass and the edge filter *)

GraphRoot(g) == IF g # <<>> THEN g[1].pkg ELSE ""

ChildLevelSame(level) == level

ChildLevel(level) == level + 1

RECURSIVE ScanDeps(_, _, _, _, _)
ScanDeps(deps, i, level, lv, q) ==
    IF i > Len(deps) THEN [levels |-> lv, queue |-> q]
    ELSE IF deps[i] \notin DOMAIN lv
        THEN ScanDeps(deps, i + 1, level,
                      (deps[i] :> ChildLevel(level)) @@ lv,
                      Append(q, <<deps[i], ChildLevel(level)>>))
        ELSE ScanDeps(deps, i + 1, level, lv, q)

LevelsStart ==
    /\ pc = "idle"
    /\ IF GraphRoot(graph) # ""
          THEN /\ queue' = <<<<GraphRoot(graph), 0>>>>
               /\ levels' = (GraphRoot(graph) :> 0)
          ELSE /\ queue' = <<>>
               /\ levels' = <<>>
    /\ pc' = "levels"
    /\ UNCHANGED <<target, reverse, ridx>>
    /\ UNCHANGED buildVars

LevelsPop ==
    /\ pc = "levels"
    /\ queue # <<>>
    /\ LET pkg == Head(queue)[1]
           level == Head(queue)[2]
           r == ScanDeps(GetOr(graph, pkg, <<>>), 1, level, levels, Tail(queue))
       IN  /\ levels' = r.levels
           /\ queue' = r.queue
    /\ UNCHANGED <<pc, target, reverse, ridx>>
    /\ UNCHANGED buildVars

LevelsReturn ==
    /\ pc = "levels"
    /\ queue = <<>>
    /\ pc' = "leveled"
    /\ UNCHANGED queryVars
    /\ UNCHANGED buildVars

EdgeSlots(g) ==
    UNION {{<<i, j>> : j \in 1..Len(g[i].deps)} : i \in 1..Len(g)}

EmittedEdges(g) == {e \in EdgeSlots(g) : Has(g, g[e[1]].deps[e[2]])}

----------------------------------------------------------------------------
(* Queries on an arbitrary graph *)

GraphDepLists(b) ==
    UNION {[1..n -> GraphNames] : n \in 0..(IF b < MaxDeps THEN b ELSE MaxDeps)}

RECURSIVE GraphsFrom(_, _, _)
GraphsFrom(g, n, b) ==
    {g} \cup
    IF n = 0 THEN {}
    ELSE UNION {GraphsFrom(Append(g, [pkg |-> k, deps |-> d]), n - 1, b - Len(d)) :
                    k \in GraphNames \ Keys(g), d \in GraphDepLists(b)}

InitGraph ==
    /\ graph \in GraphsFrom(<<>>, Cardinality(GraphNames), MaxGraphEdges)
    /\ pc = "idle"
    /\ root = ""
    /\ source = <<>>
    /\ visited = {}
    /\ path = {}
    /\ stack = <<>>
    /\ run = 1
    /\ graph1 = <<>>
    /\ lookups = [p \in Packages |-> 0]
    /\ cycled = {}
    /\ reentered = {}
    /\ target = ""
    /\ reverse = <<>>
    /\ ridx = 1
    /\ levels = <<>>
    /\ queue = <<>>

NextGraph ==
    \/ StartReverse \/ ReverseScan \/ ReverseReturn
    \/ LevelsStart \/ LevelsPop \/ LevelsReturn

SpecGraph == InitGraph /\ [][NextGraph]_vars

\* One top-level call, executed sequentially: a call that can take a step does.
FairSpec == Init /\ [][Build]_vars /\ WF_vars(Build)

----------------------------------------------------------------------------
(* Properties of build_dependency_graph *)

Done == pc = "done"

Item(k, v) == [pkg |-> k, deps |-> v]

CycleABSource ==
    /\ root = "A"
    /\ DOMAIN source = {"A", "B"}
    /\ source["A"] = <<"B">>
    /\ source["B"] = <<"A">>

\* C1 (as stated): for A -> [B], B -> [A] the build rooted at A returns
\* {A: [B], B: []}: A keeps its fetched list and B's entry is empty.
C1_Original ==
    (Done /\ CycleABSource) =>
        DictEq(graph, <<Item("A", <<"B">>), Item("B", <<>>)>>)

\* C1 (amended): for A -> [B], B -> [A] the build rooted at A terminates and
\* returns {A: [], B: [A]} with keys in the order A, B: the cycle branch
\* entered for A overwrites the root's fetched list and B keeps [A].
C1_CycleGraph ==
    (Done /\ CycleABSource) =>
        graph = <<Item("A", <<>>), Item("B", <<"A">>)>>

C1_Witness == Done /\ CycleABSource /\ "A" \in cycled

\* C2 (as stated): a package that took the cycle branch is not in visited
\* afterwards, and a later entry to it made off the path looks it up again.
C2_Original ==
    \A p \in cycled :
        /\ p \notin visited
        /\ p \in reentered => lookups[p] >= 2

\* C2 (amended): a package that took the cycle branch is in visited (it was
\* added when its expansion began) and stays there, so a later entry to it
\* made off the path returns at the visited check: it was looked up exactly
\* once and its graph entry stays the empty list.
C2_CycleStaysVisited ==
    \A p \in cycled :
        /\ p \in visited
        /\ lookups[p] = 1
        /\ Has(graph, p) /\ Get(graph, p) = <<>>

C2_Witness == \E p \in reentered : p \in cycled /\ p \notin path /\ Done

\* C3: for an acyclic source, one build call looks up every package
\* reachable from the root exactly once and no other package.
C3_OneLookupEach ==
    (Done /\ Acyclic(source)) =>
        \A p \in Packages :
            lookups[p] = IF p \in Reachable(source, root) THEN 1 ELSE 0

Listers(src, p) == {k \in DOMAIN src : p \in Elems(src[k])}

C3_Witness ==
    /\ Done
    /\ Acyclic(source)
    /\ \E p \in Packages : Cardinality(Listers(source, p)) >= 2 /\ lookups[p] = 1
    /\ \E p \in Packages : lookups[p] = 0

KnownNames ==
    {root} \cup DOMAIN source \cup UNION {Elems(source[p]) : p \in DOMAIN source}

DepthBound == (pc = "build" /\ CanEnter) => Depth <= Cardinality(KnownNames)

\* C4: for every finite source (cycles, self-dependencies, duplicate entries
\* included) a build call terminates without an error, and the depth of a
\* call never exceeds the number of distinct packages.
C4_Terminates ==
    /\ [](pc # "error" /\ DepthBound)
    /\ (pc = "build") ~> Done

C4_Witness ==
    /\ Done
    /\ \E p \in DOMAIN source : p \in Elems(source[p])
    /\ \E p \in DOMAIN source : Len(source[p]) = 2 /\ source[p][1] = source[p][2]
    /\ \E p \in cycled : p # root

DiamondSource ==
    /\ root = "A"
    /\ DOMAIN source = {"A", "B", "C", "D"}
    /\ source["A"] = <<"B", "C">>
    /\ source["B"] = <<"D">>
    /\ source["C"] = <<"D">>
    /\ source["D"] = <<>>

\* C5: for an acyclic source the returned graph has as keys exactly the
\* packages reachable from the root and maps each key to the list the source
\* gives for it, order and duplicates kept; the diamond A -> [B, C],
\* B -> [D], C -> [D], D -> [] gives {A:[B,C], B:[D], C:[D], D:[]}.
C5_AcyclicGraph ==
    (Done /\ Acyclic(source)) =>
        /\ Keys(graph) = Reachable(source, root)
        /\ Len(graph) = Cardinality(Keys(graph))
        /\ \A k \in Keys(graph) : k \in DOMAIN source /\ Get(graph, k) = source[k]
        /\ DiamondSource =>
               DictEq(graph, <<Item("A", <<"B", "C">>), Item("B", <<"D">>),
                               Item("C", <<"D">>), Item("D", <<>>)>>)

C5_Witness == Done /\ DiamondSource /\ Len(graph) = 4

\* C8: a second build call with the same root on the same source returns a
\* graph equal to the first (same keys in the same order, same lists).
C8_SameGraphTwice == (Done /\ run = 2) => graph = graph1

C8_Witness == Done /\ run = 2 /\ Len(graph) >= 3 /\ cycled # {}

StackPackages == {stack[i].package : i \in 1..Len(stack)}

\* C9: the path set is exactly the set of packages whose expansion has begun
\* and not finished (one per active call), at every entry and every return;
\* it is empty when the top-level call starts and when it returns.
C9_PathIsStack ==
    pc \in {"build", "done"} =>
        /\ path = StackPackages
        /\ Cardinality(path) = Len(stack)
        /\ (Done => path = {})

C9_Witness ==
    /\ pc = "build"
    /\ Len(stack) >= 2
    /\ cycled # {}
    /\ \E p \in visited : p \notin path

\* C10: in every returned graph, cyclic source or not, every name in a
\* dependency list is a key and the root is the first key, so the emitter's
\* filter keeps every edge.
C10_ClosedGraph ==
    Done =>
        /\ \A i \in 1..Len(graph) : Elems(graph[i].deps) \subseteq Keys(graph)
        /\ graph # <<>> /\ graph[1].pkg = root
        /\ EmittedEdges(graph) = EdgeSlots(graph)

C10_Witness ==
    /\ Done
    /\ cycled # {}
    /\ root \in cycled
    /\ Len(graph) >= 3
    /\ EdgeSlots(graph) # {}

----------------------------------------------------------------------------
(* Properties of the queries, on every graph within the bounds *)

Dependents(g, t) == {k \in Keys(g) : t \in Elems(Get(g, k))}

\* C6: find_reverse_dependencies returns every key whose list contains the
\* target exactly once and no other key, in key insertion order (the empty
\* list when no key lists the target), and leaves the graph unchanged.
C6_ReverseDeps ==
    /\ [](pc = "reversed" =>
            /\ Elems(reverse) = Dependents(graph, target)
            /\ Len(reverse) = Cardinality(Dependents(graph, target))
            /\ \A i, j \in 1..Len(reverse) :
                   i < j => Index(graph, reverse[i]) < Index(graph, reverse[j]))
    /\ [][(pc \in {"idle", "reverse"}) => (graph' = graph)]_vars

C6_Witness ==
    /\ pc = "reversed"
    /\ Len(reverse) = 2
    /\ Len(graph) = 3
    /\ graph[1].pkg \notin Elems(reverse)
    /\ \E i \in 1..Len(graph) :
           Len(graph[i].deps) = 2 /\ graph[i].deps[1] = target /\ graph[i].deps[2] = target

Successors(g, S) == S \cup UNION {Elems(GetOr(g, p, <<>>)) : p \in S}

RECURSIVE Ball(_, _, _)
Ball(g, r, k) == IF k = 0 THEN {r} ELSE Successors(g, Ball(g, r, k - 1))

Distance(g, r, n) ==
    CHOOSE k \in 0..Cardinality(GraphNames) :
        /\ n \in Ball(g, r, k)
        /\ k > 0 => n \notin Ball(g, r, k - 1)

\* C7: for a non-empty graph the level pass gives the first key level 0,
\* gives every other node reachable from it over stored edges its shortest
\* edge distance from the first key (so a node at level L > 0 has a parent at
\* level L-1 and none below L-1), and leaves unreachable nodes unleveled.
C7_Levels ==
    (pc = "leveled" /\ graph # <<>>) =>
        LET r == graph[1].pkg IN
        /\ DOMAIN levels = Ball(graph, r, Cardinality(GraphNames))
        /\ levels[r] = 0
        /\ \A n \in DOMAIN levels :
            /\ levels[n] = Distance(graph, r, n)
            /\ levels[n] > 0 =>
                /\ \E p \in Dependents(graph, n) \cap DOMAIN levels :
                       levels[p] = levels[n] - 1
                /\ \A p \in Dependents(graph, n) \cap DOMAIN levels :
                       levels[p] >= levels[n] - 1

C7_Witness ==
    /\ pc = "leveled"
    /\ \E n \in DOMAIN levels :
        /\ levels[n] = 1
        /\ \E p \in Dependents(graph, n) : p \in DOMAIN levels /\ levels[p] = 1

====
